---- MODULE Spec2Model ----
(***************************************************************************)
(* Model of exctinction_R136(waves, Rv) of R136_Extinction_Law.py          *)
(* (variant 1) and R136_redlaw.py (variant 2).                             *)
(*                                                                         *)
(* One call is a sequence of steps, one per block of the function body.    *)
(* A float is a fixed-point integer with Scale units per 1.0, or one of    *)
(* the IEEE specials Inf, NegInf, NaN.  Wavelengths are whole Angstrom.    *)
(* interpolate.splrep(x, y, k=3) is called without weights, so its         *)
(* smoothing factor is 0 and the fit is the interpolating cubic spline     *)
(* with knots x[2..m-3], that is the not-a-knot cubic spline; it is        *)
(* computed here from its second derivatives and kept in piecewise         *)
(* polynomial form.                                                        *)
(***************************************************************************)
EXTENDS Integers, Sequences, FiniteSets, TLC

VARIABLES variant, waves, Rv, pc, xx, curve, iuv, iopir, xuv, yuv, yspluv,
          xsplopir, ysplopir, tck, Alam_Av

vars == <<variant, waves, Rv, pc, xx, curve, iuv, iopir, xuv, yuv, yspluv,
          xsplopir, ysplopir, tck, Alam_Av>>

(***************************************************************************)
(* Floating point as fixed point.                                          *)
(***************************************************************************)
Scale == 10^6

Inf == 2 * 10^9
NegInf == -Inf
NaN == Inf + 1

IsFinite(a) == NegInf < a /\ a < Inf

Abs(a) == IF a < 0 THEN -a ELSE a

Sgn(a) == IF a < 0 THEN -1 ELSE 1

\* floor(a*b/Scale) for finite a, b >= 0, without leaving 32 bits
MulAbs(a, b) ==
    LET a1 == a \div 1000
        a0 == a % 1000
        b1 == b \div 1000
        b0 == b % 1000
    IN  a1 * b1 + ((a1 * b0 + a0 * b1 + (a0 * b0) \div 1000) \div 1000)

\* floor(a*m/b) for a >= 0, b > 0, by doubling over the binary digits of m;
\* qr is <<quotient, remainder>> of (the digits taken so far)*a by b
RECURSIVE MulDivAbs(_, _, _)
MulDivAbs(a, m, b) ==
    IF m = 0 THEN <<0, 0>>
    ELSE LET h  == MulDivAbs(a, m \div 2, b)
             q2 == 2 * h[1] + ((2 * h[2]) \div b)
             r2 == (2 * h[2]) % b
         IN  IF m % 2 = 0 THEN <<q2, r2>>
             ELSE <<q2 + (a \div b) + ((r2 + (a % b)) \div b), (r2 + (a % b)) % b>>

\* the first n base-B digits of r/b for 0 <= r < b, as a number; r*B stays
\* within 32 bits when b <= MaxInt \div B
RECURSIVE Digits(_, _, _, _)
Digits(r, b, n, B) ==
    IF n = 0 THEN 0
    ELSE ((r * B) \div b) * B^(n - 1) + Digits((r * B) % b, b, n - 1, B)

MaxInt == 2^30 + (2^30 - 1)

\* floor(a*Scale/b) for a >= 0, b > 0, by long division in the largest base
\* the divisor leaves room for
DivAbs(a, b) ==
    (a \div b) * Scale
    + (IF b <= MaxInt \div 1000 THEN Digits(a % b, b, 2, 1000)
       ELSE IF b <= MaxInt \div 10 THEN Digits(a % b, b, 6, 10)
       ELSE MulDivAbs(a % b, Scale, b)[1])

Neg(a) == IF a = NaN THEN NaN ELSE -a

Add(a, b) ==
    IF a = NaN \/ b = NaN THEN NaN
    ELSE IF a = Inf THEN (IF b = NegInf THEN NaN ELSE Inf)
    ELSE IF a = NegInf THEN (IF b = Inf THEN NaN ELSE NegInf)
    ELSE IF b = Inf \/ b = NegInf THEN b
    ELSE a + b

Sub(a, b) == Add(a, Neg(b))

Mul(a, b) ==
    IF a = NaN \/ b = NaN THEN NaN
    ELSE IF ~IsFinite(a) \/ ~IsFinite(b)
         THEN (IF a = 0 \/ b = 0 THEN NaN ELSE Sgn(a) * Sgn(b) * Inf)
    ELSE Sgn(a) * Sgn(b) * MulAbs(Abs(a), Abs(b))

Div(a, b) ==
    IF a = NaN \/ b = NaN THEN NaN
    ELSE IF ~IsFinite(a)
         THEN (IF ~IsFinite(b) THEN NaN ELSE Sgn(a) * Sgn(b) * Inf)
    ELSE IF ~IsFinite(b) THEN 0
    ELSE IF b = 0 THEN (IF a = 0 THEN NaN ELSE Sgn(a) * Inf)
    ELSE Sgn(a) * Sgn(b) * DivAbs(Abs(a), Abs(b))

\* np.maximum
Maximum(a, b) == IF a = NaN \/ b = NaN THEN NaN ELSE IF a >= b THEN a ELSE b

\* a >= b and a < b on floats: every comparison with NaN is false
Ge(a, b) == a # NaN /\ b # NaN /\ a >= b
Lt(a, b) == a # NaN /\ b # NaN /\ a < b

\* the decimal literal m * 10^-k, rounded to the nearest fixed-point unit
Dec(m, k) ==
    IF k <= 6 THEN m * 10^(6 - k)
    ELSE Sgn(m) * ((Abs(m) + (10^(k - 6)) \div 2) \div 10^(k - 6))

(***************************************************************************)
(* Sequence helpers (numpy indexing; indices are 1-based here).            *)
(***************************************************************************)
\* arr[idx] with idx a sequence of indices
Take(arr, idx) == [k \in 1..Len(idx) |-> arr[idx[k]]]

\* arr[idx] = vals
Put(arr, idx, vals) ==
    [i \in 1..Len(arr) |->
        IF \E k \in 1..Len(idx) : idx[k] = i
        THEN vals[CHOOSE k \in 1..Len(idx) : idx[k] = i]
        ELSE arr[i]]

\* arr[from::] counted from 0 as in the source
From(arr, from) == SubSeq(arr, from + 1, Len(arr))

Reverse(s) == [k \in 1..Len(s) |-> s[Len(s) + 1 - k]]

\* np.arange(n), counted from 1
Indices(n) == [i \in 1..n |-> i]

\* np.polyval(p, x), p from the highest degree down: Horner
RECURSIVE polyval(_, _)
polyval(p, x) ==
    IF p = <<>> THEN 0
    ELSE Add(Mul(polyval(SubSeq(p, 1, Len(p) - 1), x), x), p[Len(p)])

(***************************************************************************)
(* Parameters of the UV part of the extinction curve.                      *)
(***************************************************************************)
c2(v, r) == IF v = 1 THEN Add(Dec(78, 2), Mul(Dec(11, 2), r)) ELSE Dec(130, 2)
c1(v, r) == Sub(Dec(2030, 3), Mul(Dec(3007, 3), c2(v, r)))
c3 == Dec(1463, 3)
c4(v) == IF v = 1 THEN Dec(13, 2) ELSE Dec(9, 2)
c5 == Dec(59, 1)
x0 == Dec(4558, 3)
gamma == Dec(945, 3)

\* 10000./w
InvMicron(w) == Div(10000, w)

xcutuv == InvMicron(2700)
xspluv == <<InvMicron(2700), InvMicron(2600)>>

Pow2(a) == Mul(a, a)
Pow3(a) == Mul(Mul(a, a), a)

\* yuv = c1 + c2*xuv
UVLinear(v, r, x) == Add(c1(v, r), Mul(c2(v, r), x))

\* yuv = yuv + c3*xuv**2/((xuv**2-x0**2)**2 +(xuv*gamma)**2)
UVBump(y, x) ==
    Add(y, Div(Mul(c3, Pow2(x)),
               Add(Pow2(Sub(Pow2(x), Pow2(x0))), Pow2(Mul(x, gamma)))))

\* alternative: the far-UV rise without np.maximum
UVFarRiseUnclamped(y, v, r, x) ==
    Add(Add(y, Mul(c4(v), Add(Mul(Dec(5392, 4), Pow2(Sub(x, c5))),
                              Mul(Dec(5644, 5), Pow3(Sub(x, c5)))))),
        r)

\* yuv = yuv + c4*(0.5392*(max(xuv,c5)-c5)**2 + 0.05644*(max(xuv,c5)-c5)**3) + Rv
UVFarRise(y, v, r, x) ==
    Add(Add(y, Mul(c4(v), Add(Mul(Dec(5392, 4), Pow2(Sub(Maximum(x, c5), c5))),
                              Mul(Dec(5644, 5), Pow3(Sub(Maximum(x, c5), c5)))))),
        r)

UVFormula(v, r, x) == UVFarRise(UVBump(UVLinear(v, r, x), x), v, r, x)

(***************************************************************************)
(* Optical and NIR spline points and anchors.                              *)
(***************************************************************************)
AnchorWaves(v) ==
    IF v = 1 THEN <<26500, 12200, 6000, 5470, 4670, 4110>>
    ELSE <<26500, 18000, 12200, 10000, 8696, 5495, 4670, 4405, 4110, 3704, 3304>>

spline_arr(v) == [k \in 1..Len(AnchorWaves(v)) |-> InvMicron(AnchorWaves(v)[k])]

Xsplopir(v) == <<0>> \o spline_arr(v)

\* ysplir = np.array([0.0,0.26469,0.82925])*Rv/3.1
ysplir(r) ==
    LET a == <<0, Dec(26469, 5), Dec(82925, 5)>>
    IN  [k \in 1..3 |-> Div(Mul(a[k], r), Dec(31, 1))]

\* coefficient lists as written in the source, lowest degree first
ysplopCoeffs ==
    << <<Dec(-422809, 6), Dec(10027, 4), Dec(213572, 9)>>,
       <<Dec(-513540, 7), Dec(100216, 5), Dec(-735778, 10)>>,
       <<Dec(700127, 6), Dec(100184, 5), Dec(-332598, 10)>>,
       <<Dec(119456, 5), Dec(101707, 5), Dec(-546959, 8), Dec(797809, 9),
         Dec(-445636, 10)>> >>

ysplop(r) == [k \in 1..4 |-> polyval(Reverse(ysplopCoeffs[k]), r)]

redlawCoeffs ==
    << <<Dec(-1097, 4), Dec(1195, 4)>>,
       <<Dec(-2046, 4), Dec(2228, 4)>>,
       <<Dec(-3826, 4), Dec(4167, 4)>>,
       <<Dec(-5270, 4), Dec(5740, 4)>>,
       <<Dec(-6392, 4), Dec(7147, 4)>>,
       <<Dec(-2, 4), Dec(10000, 4)>>,
       <<Dec(7455, 4), Dec(10023, 4)>>,
       <<Dec(10004, 4), Dec(10000, 4)>>,
       <<Dec(13149, 4), Dec(9887, 4)>>,
       <<Dec(17931, 4), Dec(9661, 4)>>,
       <<Dec(22580, 4), Dec(9689, 4)>> >>

Ysplopir(v, r) ==
    IF v = 1 THEN ysplir(r) \o ysplop(r)
    ELSE <<0>> \o [k \in 1..11 |-> polyval(Reverse(redlawCoeffs[k]), r)]

(***************************************************************************)
(* interpolate.splrep(x, y, k=3) and interpolate.splev(x, tck).            *)
(***************************************************************************)
\* h[i] = x[i+1] - x[i]
KnotSteps(x) == [i \in 1..(Len(x) - 1) |-> Sub(x[i + 1], x[i])]

\* d[i] = (y[i+1] - y[i]) / h[i]
Slopes(x, y) ==
    [i \in 1..(Len(x) - 1) |-> Div(Sub(y[i + 1], y[i]), KnotSteps(x)[i])]

\* Row i (2 <= i <= n-1) of the system for the second derivatives M[2..n-1],
\* as <<lower, diagonal, upper, right-hand side>>; the first and the last row
\* carry the not-a-knot conditions at x[2] and x[n-1].
TriRowOf(h, n, i, rhs) ==
    IF i = 2
    THEN <<0, Add(h[1], Mul(Dec(2, 0), h[2])), Sub(h[2], h[1]),
           Div(Mul(rhs, h[2]), Add(h[1], h[2]))>>
    ELSE IF i = n - 1
    THEN <<Sub(h[n - 2], h[n - 1]), Add(Mul(Dec(2, 0), h[n - 2]), h[n - 1]), 0,
           Div(Mul(rhs, h[n - 2]), Add(h[n - 2], h[n - 1]))>>
    ELSE <<h[i - 1], Mul(Dec(2, 0), Add(h[i - 1], h[i])), h[i], rhs>>

TriRow(h, d, i) == TriRowOf(h, Len(h) + 1, i, Mul(Dec(6, 0), Sub(d[i], d[i - 1])))

\* one step of the forward elimination: <<c', d'>> of a row, given those of
\* the rows before it
EliminateRow(row, acc) ==
    IF acc = <<>> THEN <<Div(row[3], row[2]), Div(row[4], row[2])>>
    ELSE <<Div(row[3], Sub(row[2], Mul(row[1], acc[Len(acc)][1]))),
           Div(Sub(row[4], Mul(row[1], acc[Len(acc)][2])),
               Sub(row[2], Mul(row[1], acc[Len(acc)][1])))>>

\* forward elimination: acc[k] = <<c', d'>> of row k+1
RECURSIVE Eliminate(_, _, _, _)
Eliminate(h, d, i, acc) ==
    IF i > Len(h) THEN acc
    ELSE Eliminate(h, d, i + 1, Append(acc, EliminateRow(TriRow(h, d, i), acc)))

\* one step of the back substitution
BackStep(c, rest) == <<Sub(c[2], Mul(c[1], rest[1]))>> \o rest

\* back substitution: the second derivatives of rows k..Len(cd)
RECURSIVE BackSubstitute(_, _)
BackSubstitute(cd, k) ==
    IF k = Len(cd) THEN <<cd[k][2]>>
    ELSE BackStep(cd[k], BackSubstitute(cd, k + 1))

\* M[1] and M[n] from the not-a-knot conditions, around M[2..n-1]
WithEnds(h, mi) ==
    <<Div(Sub(Mul(Add(h[1], h[2]), mi[1]), Mul(h[1], mi[2])), h[2])>>
    \o mi
    \o <<Div(Sub(Mul(Add(h[Len(h) - 1], h[Len(h)]), mi[Len(mi)]),
                 Mul(h[Len(h)], mi[Len(mi) - 1])), h[Len(h) - 1])>>

\* the second derivatives M[1..n] of the not-a-knot cubic spline
SecondDerivatives(x, y) ==
    WithEnds(KnotSteps(x),
             BackSubstitute(Eliminate(KnotSteps(x), Slopes(x, y), 2, <<>>), 1))

\* tck: on [x[i], x[i+1]] the spline is y[i] + t*(b[i] + t*(c[i] + t*d[i])),
\* t = x - x[i]
PiecewisePoly(x, y, h, s, m) ==
    [x |-> x,
     y |-> y,
     b |-> [i \in 1..Len(h) |->
              Sub(s[i], Div(Mul(h[i], Add(Mul(Dec(2, 0), m[i]), m[i + 1])),
                            Dec(6, 0)))],
     c |-> [i \in 1..Len(h) |-> Div(m[i], Dec(2, 0))],
     d |-> [i \in 1..Len(h) |->
              Div(Sub(m[i + 1], m[i]), Mul(Dec(6, 0), h[i]))]]

splrep(x, y) ==
    PiecewisePoly(x, y, KnotSteps(x), Slopes(x, y), SecondDerivatives(x, y))

\* the piece x falls in; outside the knots the end pieces extrapolate
Piece(x, t) ==
    CHOOSE i \in 1..(Len(t.x) - 1) :
        /\ i = 1 \/ t.x[i] <= x
        /\ i = Len(t.x) - 1 \/ x < t.x[i + 1]

\* piece i of t at x
PieceValue(x, t, i) ==
    Add(t.y[i], Mul(Sub(x, t.x[i]),
                    Add(t.b[i], Mul(Sub(x, t.x[i]),
                                    Add(t.c[i], Mul(Sub(x, t.x[i]), t.d[i]))))))

splev(x, t) == PieceValue(x, t, Piece(x, t))

(***************************************************************************)
(* The blocks of exctinction_R136.                                         *)
(***************************************************************************)
\* xx = 10000./ np.array(waves)
InverseWaves(w) == [i \in 1..Len(w) |-> InvMicron(w[i])]

\* curve = xx*0.
ZeroCurve(x) == [i \in 1..Len(x) |-> Mul(x[i], 0)]

\* alternative: the comparison made strict, so that 2700 Angstrom is in neither set
UVIndicesStrict(x) == SelectSeq(Indices(Len(x)), LAMBDA i : Lt(xcutuv, x[i]))

\* iuv = np.where(xx >= xcutuv)[0]
UVIndices(x) == SelectSeq(Indices(Len(x)), LAMBDA i : Ge(x[i], xcutuv))

\* iopir = np.where(xx < xcutuv)[0]
OpirIndices(x) == SelectSeq(Indices(Len(x)), LAMBDA i : Lt(x[i], xcutuv))

\* xuv = np.concatenate((xspluv,xx[iuv])) if len(iuv) > 0 else xspluv
UVPoints(x, iu) == IF Len(iu) > 0 THEN xspluv \o Take(x, iu) ELSE xspluv

\* the three yuv statements, elementwise over xuv
UVValues(v, r, xu) == [k \in 1..Len(xu) |-> UVFormula(v, r, xu[k])]

\* alternative: the boundary values taken from the end of yuv
BoundaryValuesLast(yu) == SubSeq(yu, Len(yu) - 1, Len(yu))

\* yspluv = yuv[0:2]
BoundaryValues(yu) == SubSeq(yu, 1, 2)

\* alternative: the two boundary values are not skipped
ScatterUVFromStart(cv, iu, yu) == IF Len(iu) > 0 THEN Put(cv, iu, yu) ELSE cv

\* if (len(iuv) > 0): curve[iuv] = yuv[2::]
ScatterUV(cv, iu, yu) == IF Len(iu) > 0 THEN Put(cv, iu, From(yu, 2)) ELSE cv

\* alternatives: the UV boundary points put first; the two boundary values swapped
ControlXBoundaryFirst(xs) == xspluv \o xs
ControlYSwapped(ys, yb) == ys \o Reverse(yb)

\* np.concatenate((xsplopir,xspluv)), np.concatenate((ysplopir,yspluv))
ControlX(xs) == xs \o xspluv
ControlY(ys, yb) == ys \o yb

\* curve[iopir] = interpolate.splev(xx[iopir], tck)
ScatterSpline(cv, io, x, t) ==
    Put(cv, io, [k \in 1..Len(io) |-> splev(x[io[k]], t)])

\* alternative: normalised by 3.1 as the near-IR anchors are
NormaliseBy31(cv, r) == [i \in 1..Len(cv) |-> Div(cv[i], Dec(31, 1))]

\* Alam_Av = curve/Rv
Normalise(cv, r) == [i \in 1..Len(cv) |-> Div(cv[i], r)]

(***************************************************************************)
(* Inputs.                                                                 *)
(***************************************************************************)
MaxLen == 2

\* wavelengths in Angstrom: a negative and a zero one, far UV beyond c5, the
\* cut itself, one Angstrom to the red of the cut, an optical anchor of each
\* variant and the reddest anchor of both
Wavelengths == {-5470, 0, 1500, 2700, 2701, 5470, 5495, 26500}

\* Rv: zero, a negative value, and values in the range of the R136 fits
RvValues == {0, Dec(-31, 1), Dec(20, 1), Dec(31, 1), Dec(45, 1)}

WaveSeqs == UNION {[1..n -> Wavelengths] : n \in 0..MaxLen}

Init ==
    /\ variant \in {1, 2}
    /\ waves \in WaveSeqs
    /\ Rv \in RvValues
    /\ pc = "call"
    /\ xx = <<>>
    /\ curve = <<>>
    /\ iuv = <<>>
    /\ iopir = <<>>
    /\ xuv = <<>>
    /\ yuv = <<>>
    /\ yspluv = <<>>
    /\ xsplopir = <<>>
    /\ ysplopir = <<>>
    /\ tck = <<>>
    /\ Alam_Av = <<>>

\* lines 39-48 (variant 1), 34-43 (variant 2)
MapWaves ==
    /\ pc = "call"
    /\ xx' = InverseWaves(waves)
    /\ curve' = ZeroCurve(xx')
    /\ iuv' = UVIndices(xx')
    /\ iopir' = OpirIndices(xx')
    /\ xuv' = UVPoints(xx', iuv')
    /\ pc' = "uv"
    /\ UNCHANGED <<variant, waves, Rv, yuv, yspluv, xsplopir, ysplopir, tck, Alam_Av>>

\* lines 51-57 (variant 1), 46-52 (variant 2)
UVPart ==
    /\ pc = "uv"
    /\ yuv' = UVValues(variant, Rv, xuv)
    /\ yspluv' = BoundaryValues(yuv')
    /\ curve' = ScatterUV(curve, iuv, yuv')
    /\ pc' = "anchors"
    /\ UNCHANGED <<variant, waves, Rv, xx, iuv, iopir, xuv, xsplopir, ysplopir, tck,
                   Alam_Av>>

\* lines 60-68 (variant 1), 55-71 (variant 2)
Anchors ==
    /\ pc = "anchors"
    /\ xsplopir' = Xsplopir(variant)
    /\ ysplopir' = Ysplopir(variant, Rv)
    /\ pc' = "spline"
    /\ UNCHANGED <<variant, waves, Rv, xx, curve, iuv, iopir, xuv, yuv, yspluv, tck,
                   Alam_Av>>

\* alternative: the spline is built whether or not there is an optical/NIR index
SplineFitAlways ==
    /\ pc = "spline"
    /\ tck' = <<splrep(ControlX(xsplopir), ControlY(ysplopir, yspluv))>>
    /\ curve' = ScatterSpline(curve, iopir, xx, tck'[1])
    /\ pc' = "normalise"
    /\ UNCHANGED <<variant, waves, Rv, xx, iuv, iopir, xuv, yuv, yspluv, xsplopir,
                   ysplopir, Alam_Av>>

\* lines 71-74 (variant 1), 74-77 (variant 2), len(iopir) > 0
SplineFit ==
    /\ pc = "spline"
    /\ Len(iopir) > 0
    /\ tck' = <<splrep(ControlX(xsplopir), ControlY(ysplopir, yspluv))>>
    /\ curve' = ScatterSpline(curve, iopir, xx, tck'[1])
    /\ pc' = "normalise"
    /\ UNCHANGED <<variant, waves, Rv, xx, iuv, iopir, xuv, yuv, yspluv, xsplopir,
                   ysplopir, Alam_Av>>

\* the same lines, len(iopir) = 0: no spline is built
SplineSkip ==
    /\ pc = "spline"
    /\ Len(iopir) = 0
    /\ pc' = "normalise"
    /\ UNCHANGED <<variant, waves, Rv, xx, curve, iuv, iopir, xuv, yuv, yspluv,
                   xsplopir, ysplopir, tck, Alam_Av>>

\* lines 76-78 (variant 1), 79-81 (variant 2)
Return ==
    /\ pc = "normalise"
    /\ Alam_Av' = Normalise(curve, Rv)
    /\ pc' = "done"
    /\ UNCHANGED <<variant, waves, Rv, xx, curve, iuv, iopir, xuv, yuv, yspluv,
                   xsplopir, ysplopir, tck>>

Next == MapWaves \/ UVPart \/ Anchors \/ SplineFit \/ SplineSkip \/ Return

Spec == Init /\ [][Next]_vars

\* the blocks after the waves are mapped, as functions of their inputs
CurveOf(x, iu, io, yu, t) ==
    IF Len(io) > 0 THEN ScatterSpline(ScatterUV(ZeroCurve(x), iu, yu), io, x, t)
    ELSE ScatterUV(ZeroCurve(x), iu, yu)

CallOnUV(v, r, x, iu, io, yu) ==
    Normalise(CurveOf(x, iu, io, yu,
                      splrep(ControlX(Xsplopir(v)),
                             ControlY(Ysplopir(v, r), BoundaryValues(yu)))), r)

CallOnMapped(v, r, x, iu, io) ==
    CallOnUV(v, r, x, iu, io, UVValues(v, r, UVPoints(x, iu)))

\* the whole call as a function of its arguments
exctinction_R136(v, w, r) ==
    CallOnMapped(v, r, InverseWaves(w), UVIndices(InverseWaves(w)),
                 OpirIndices(InverseWaves(w)))

(***************************************************************************)
(* Properties.                                                             *)
(***************************************************************************)
\* a call the interface allows: N >= 1, every wavelength > 0, Rv non-zero
ValidCall ==
    /\ Len(waves) >= 1
    /\ \A i \in 1..Len(waves) : waves[i] > 0
    /\ Rv # 0

IsUV(w) == Ge(InvMicron(w), InvMicron(2700))

InSeq(i, s) == \E k \in 1..Len(s) : s[k] = i

StrictlyIncreasing(s) == \A k \in 1..(Len(s) - 1) : s[k] < s[k + 1]

\* the spline of a variant and an Rv, from the tables and the UV formula alone
TableSpline(v, r) ==
    splrep(<<0>> \o spline_arr(v) \o xspluv,
           Ysplopir(v, r) \o <<UVFormula(v, r, xspluv[1]), UVFormula(v, r, xspluv[2])>>)

\* the value of the law at one wavelength
ValueAt(v, r, w) ==
    Div(IF IsUV(w) THEN UVFormula(v, r, InvMicron(w))
        ELSE splev(InvMicron(w), TableSpline(v, r)), r)

\* C1: a valid call returns one value per input wavelength, and element i is
\* the value of the law at waves[i], whatever the mix and order of UV and
\* optical/NIR wavelengths.
C1_LengthAndOrder ==
    (pc = "done" /\ ValidCall) =>
        /\ Len(Alam_Av) = Len(waves)
        /\ \A i \in 1..Len(waves) : Alam_Av[i] = ValueAt(variant, Rv, waves[i])

\* a returned valid call with an optical/NIR wavelength before a UV one
C1_Witness ==
    /\ pc = "done"
    /\ ValidCall
    /\ \E i, j \in 1..Len(waves) : i < j /\ ~IsUV(waves[i]) /\ IsUV(waves[j])

\* C2: a call with empty waves, a zero or negative wavelength, or Rv = 0 is
\* rejected before any computation and returns no result.
C2_InvalidInputRejected ==
    ~ValidCall => (pc = "call" /\ Alam_Av = <<>>)

AllUV == Len(waves) >= 1 /\ \A i \in 1..Len(waves) : waves[i] > 0 /\ waves[i] <= 2700

AllOpir == Len(waves) >= 1 /\ \A i \in 1..Len(waves) : waves[i] > 2700

\* the condition under which each block runs; the blocks compute total
\* functions of the state, so a block whose condition holds takes its step
StepEnabled ==
    \/ pc \in {"call", "uv", "anchors", "normalise"}
    \/ pc = "spline" /\ Len(iopir) > 0
    \/ pc = "spline" /\ Len(iopir) = 0

\* C3: the spline is built if and only if there is an optical/NIR index; an
\* all-UV call builds no spline; an all-optical/NIR call evaluates the UV
\* formula at the two boundary coordinates only; and no call is stopped
\* before its return.
C3_PartitionRobustness ==
    /\ pc \in {"normalise", "done"} => (tck # <<>> <=> Len(iopir) > 0)
    /\ pc \in {"call", "uv", "anchors", "spline"} => tck = <<>>
    /\ AllUV => tck = <<>>
    /\ (AllOpir /\ pc # "call") => xuv = <<InvMicron(2700), InvMicron(2600)>>
    /\ (AllOpir /\ pc \notin {"call", "uv"}) => Len(yuv) = 2
    /\ (AllOpir /\ pc \in {"normalise", "done"}) => tck # <<>>
    /\ pc # "done" => StepEnabled
    /\ pc = "done" => Len(Alam_Av) = Len(waves)

\* an all-UV call of two wavelengths that returned without a spline
C3_Witness ==
    /\ pc = "done"
    /\ AllUV
    /\ Len(waves) = 2
    /\ tck = <<>>
    /\ Len(Alam_Av) = 2

Tolerance == Dec(1, 2)

\* C4: in a valid call the value one Angstrom to the red of the cut (from the
\* spline) and the value at the cut (from the UV formula) agree within 1e-2.
C4_BoundaryContinuity ==
    (pc = "done" /\ ValidCall) =>
        \A i, j \in 1..Len(waves) :
            (waves[i] = 2701 /\ waves[j] = 2700) =>
                Abs(Alam_Av[i] - Alam_Av[j]) <= Tolerance

\* a returned valid call with both sides of the cut, one value from the
\* spline and one from the UV formula
C4_Witness ==
    /\ pc = "done"
    /\ ValidCall
    /\ \E i, j \in 1..Len(waves) :
          /\ waves[i] = 2701 /\ waves[j] = 2700
          /\ InSeq(i, iopir) /\ InSeq(j, iuv)
          /\ Alam_Av[i] # Alam_Av[j]

\* C5: in a valid call the value at an anchor wavelength of the variant is
\* the anchor's tabulated value at that Rv divided by Rv, within 1e-3
\* relative.
C5_AnchorScaling ==
    (pc = "done" /\ ValidCall) =>
        \A i \in 1..Len(waves) : \A k \in 1..Len(AnchorWaves(variant)) :
            waves[i] = AnchorWaves(variant)[k] =>
                Abs(Alam_Av[i] - Div(Ysplopir(variant, Rv)[k + 1], Rv))
                    <= Mul(Dec(1, 3), Abs(Div(Ysplopir(variant, Rv)[k + 1], Rv)))

\* variant 2 returned a value at its 5495 Angstrom anchor, for an Rv that is
\* not 3.1
C5_Witness ==
    /\ pc = "done"
    /\ ValidCall
    /\ variant = 2
    /\ Rv = Dec(45, 1)
    /\ \E i \in 1..Len(waves) : waves[i] = 5495

\* C7: index i is a UV index iff 10000/waves[i] >= 10000/2700 and an
\* optical/NIR index iff 10000/waves[i] < 10000/2700, for every positive
\* wavelength; every index is in exactly one of the two sets; both sets are
\* in increasing order.
C7_PartitionExact ==
    pc # "call" =>
        /\ \A i \in 1..Len(waves) :
              /\ waves[i] > 0 =>
                    /\ InSeq(i, iuv) <=> InvMicron(waves[i]) >= InvMicron(2700)
                    /\ InSeq(i, iopir) <=> InvMicron(waves[i]) < InvMicron(2700)
              /\ waves[i] = 2700 => InSeq(i, iuv)
              /\ InSeq(i, iuv) # InSeq(i, iopir)
        /\ \A k \in 1..Len(iuv) : iuv[k] \in 1..Len(waves)
        /\ \A k \in 1..Len(iopir) : iopir[k] \in 1..Len(waves)
        /\ StrictlyIncreasing(iuv)
        /\ StrictlyIncreasing(iopir)

\* a mapped call with 2700 Angstrom after an optical/NIR wavelength
C7_Witness ==
    /\ pc = "uv"
    /\ \E i, j \in 1..Len(waves) :
          i < j /\ waves[i] > 2700 /\ waves[j] = 2700 /\ InSeq(j, iuv)

\* the far-UV rise, zero up to c5
FarRise(x) ==
    IF x <= c5 THEN 0
    ELSE Mul(Dec(5392, 4), Pow2(x - c5)) + Mul(Dec(5644, 5), Pow3(x - c5))

\* y(x) as the specification writes it
UVCurve(v, r, x) ==
    (Dec(2030, 3) - Mul(Dec(3007, 3), c2(v, r)))
    + Mul(c2(v, r), x)
    + Div(Mul(c3, Pow2(x)), Pow2(Pow2(x) - Pow2(x0)) + Pow2(Mul(x, gamma)))
    + Mul(c4(v), FarRise(x))
    + r

\* C8: in a valid call the output at every UV index is y(x)/Rv; the values at
\* the two boundary coordinates are kept for the spline and are not among
\* the UV outputs.
C8_UVSegment ==
    /\ (pc = "done" /\ ValidCall) =>
          \A i \in 1..Len(waves) :
              InvMicron(waves[i]) >= InvMicron(2700) =>
                  Alam_Av[i] = Div(UVCurve(variant, Rv, InvMicron(waves[i])), Rv)
    /\ (pc \notin {"call", "uv"} /\ ValidCall) =>
          /\ yspluv = <<UVCurve(variant, Rv, InvMicron(2700)),
                        UVCurve(variant, Rv, InvMicron(2600))>>
          /\ Len(yuv) = Len(iuv) + 2
          /\ \A k \in 1..Len(iuv) :
                yuv[k + 2] = UVCurve(variant, Rv, InvMicron(waves[iuv[k]]))

\* a returned valid call with a UV wavelength beyond c5 and one below it
C8_Witness ==
    /\ pc = "done"
    /\ ValidCall
    /\ \E i, j \in 1..Len(waves) :
          /\ InSeq(i, iuv) /\ xx[i] > c5
          /\ InSeq(j, iuv) /\ xx[j] <= c5

\* C9: the control-point coordinates handed to the spline fit are strictly
\* increasing: 0 (with curve value 0), the anchor coordinates 10000/lambda,
\* then 10000/2700 and 10000/2600, both larger than every anchor coordinate.
C9_ControlPointsIncreasing ==
    /\ pc \in {"spline", "normalise", "done"} =>
          LET X == ControlX(xsplopir)
              n == Len(AnchorWaves(variant))
          IN  /\ Len(X) = n + 3
              /\ X[1] = 0
              /\ ysplopir[1] = 0
              /\ \A k \in 1..n : X[k + 1] = InvMicron(AnchorWaves(variant)[k])
              /\ X[n + 2] = InvMicron(2700)
              /\ X[n + 3] = InvMicron(2600)
              /\ StrictlyIncreasing(X)
              /\ \A k \in 1..(n + 1) : X[k] < X[n + 2] /\ X[k] < X[n + 3]
    /\ tck # <<>> =>
          /\ tck[1].x = ControlX(xsplopir)
          /\ tck[1].y = ControlY(ysplopir, yspluv)

\* a spline was fitted
C9_Witness ==
    /\ pc = "normalise"
    /\ tck # <<>>
    /\ Len(tck[1].x) = Len(AnchorWaves(variant)) + 3

\* C10: in a valid call the output at index i is the output of the call on
\* waves[i] alone, and the call on the reversed input returns the reversed
\* output.
C10_PointwiseIndependence ==
    (pc = "done" /\ ValidCall) =>
        /\ \A i \in 1..Len(waves) :
              <<Alam_Av[i]>> = exctinction_R136(variant, <<waves[i]>>, Rv)
        /\ exctinction_R136(variant, Reverse(waves), Rv) = Reverse(Alam_Av)

\* a returned valid call of two different wavelengths, one on each side of
\* the cut
C10_Witness ==
    /\ pc = "done"
    /\ ValidCall
    /\ Len(waves) >= 2
    /\ \E i, j \in 1..Len(waves) : IsUV(waves[i]) /\ ~IsUV(waves[j])
====
